---------------------------- MODULE Spec2Model ----------------------------
(***************************************************************************)
(* A model of src/include/common_utils.h of nfs-ganesha:                   *)
(*                                                                         *)
(*   - the logging wrappers PTHREAD_RWLOCK_*, PTHREAD_MUTEX_* and          *)
(*     PTHREAD_COND_* (lines 91-358), run by several threads on one mutex, *)
(*     one rwlock and one condition variable;                              *)
(*   - the timespec arithmetic (lines 384-493).                            *)
(*                                                                         *)
(* Spec drives the wrappers, SpecTime drives the timespec arithmetic.      *)
(*                                                                         *)
(* Scaling.  TLC's integers have 32 bits, so the nanosecond quantities are *)
(* counted in units of 10^8 ns: NS_PER_SEC (10^9 ns) is 10 units, and      *)
(* (sec 10, ns 500000000) is written (10, 5).  nsecs_elapsed_t (uint64_t)  *)
(* keeps its wrap-around, with a word of NsecsBits bits.                   *)
(***************************************************************************)
EXTENDS Integers, FiniteSets, Sequences

(***************************************************************************)
(* Bounds of the model.                                                    *)
(***************************************************************************)
NumThreads == 3
MaxRc == 2
MaxSec == 12
MaxNegSec == 2
MaxInterval == 25
MaxCmpSec == 2
MaxDiffSec == 5
MaxCap == 4
MaxChar == 2
MaxSrcLen == 4
NsecsBits == 8

Threads == 1..NumThreads
NoThread == 0
\* The codes a pthread primitive can return: 0, or an errno value 1..MaxRc.
Rcs == 0..MaxRc

VARIABLES
  mtx,       \* the pthread_mutex_t:  [st, owner]
  rwl,       \* the pthread_rwlock_t: [st, writer, readers]
  cnd,       \* the pthread_cond_t:   its lifecycle state
  inM,       \* inM[t]: t is between a normal return of PTHREAD_MUTEX_lock
             \*         and its PTHREAD_MUTEX_unlock
  inRW,      \* inRW[t]: "none", "rd" or "wr": what t got from
             \*          PTHREAD_RWLOCK_rdlock / PTHREAD_RWLOCK_wrlock
  aborted,   \* abort() was called: the process is gone
  lastCall,  \* the last wrapper call: [op, thr, rc, hst, ret]
  logrec,    \* the last record handed to the log: [sev, op, thr, rc]
  events,    \* what the last wrapper call did, in program order
  ts,        \* the struct timespec the arithmetic works on
  tb,        \* a second struct timespec, for the functions that take two
  tc,        \* a third one, for the laws that relate three
  tcall,     \* the last timespec operation, with its operands and results
  ndebug,    \* the build defines NDEBUG: assert() expands to nothing
  buf,       \* the memory dest points to, byte by byte
  cap,       \* dest_size, the capacity of the buffer at dest
  written,   \* the indices of buf that memcpy has written so far
  scall      \* the last string operation, with its operands and result

syncvars == <<mtx, rwl, cnd, inM, inRW, aborted, lastCall, logrec, events>>
timevars == <<ts, tb, tc, tcall>>
strvars == <<buf, cap, written, scall>>
vars ==
  <<mtx, rwl, cnd, inM, inRW, aborted, lastCall, logrec, events,
    ts, tb, tc, tcall, ndebug, buf, cap, written, scall>>

(***************************************************************************)
(* The pthread primitives, as the wrappers call them.  rc is the code the  *)
(* primitive returns.  A blocking acquire returns 0 only once the lock can *)
(* be granted; any primitive may fail with a nonzero code and then leaves  *)
(* the object as it was.  On a destroyed object the behaviour is undefined *)
(* (POSIX): every code is possible and the object stays destroyed.         *)
(***************************************************************************)
pthread_mutex_init(rc) ==
  /\ mtx.st = "uninit"
  /\ mtx' = IF rc = 0 THEN [st |-> "init", owner |-> NoThread] ELSE mtx

pthread_mutex_destroy(rc) ==
  /\ mtx.st = "init"
  /\ mtx' = IF rc = 0 THEN [st |-> "destroyed", owner |-> NoThread] ELSE mtx

pthread_mutex_lock(t, rc) ==
  \/ /\ mtx.st = "init"
     /\ rc = 0
     /\ mtx.owner = NoThread
     /\ mtx' = [mtx EXCEPT !.owner = t]
  \/ /\ mtx.st = "init"
     /\ rc # 0
     /\ mtx' = mtx
  \/ /\ mtx.st = "destroyed"
     /\ mtx' = mtx

pthread_mutex_unlock(t, rc) ==
  \/ /\ mtx.st = "init"
     /\ rc = 0
     /\ mtx.owner = t
     /\ mtx' = [mtx EXCEPT !.owner = NoThread]
  \/ /\ mtx.st = "init"
     /\ rc # 0
     /\ mtx' = mtx
  \/ /\ mtx.st = "destroyed"
     /\ mtx' = mtx

pthread_rwlock_init(rc) ==
  /\ rwl.st = "uninit"
  /\ rwl' = IF rc = 0
            THEN [st |-> "init", writer |-> NoThread, readers |-> {}]
            ELSE rwl

pthread_rwlock_destroy(rc) ==
  /\ rwl.st = "init"
  /\ rwl' = IF rc = 0
            THEN [st |-> "destroyed", writer |-> NoThread, readers |-> {}]
            ELSE rwl

pthread_rwlock_wrlock(t, rc) ==
  \/ /\ rwl.st = "init"
     /\ rc = 0
     /\ rwl.writer = NoThread
     /\ rwl.readers = {}
     /\ rwl' = [rwl EXCEPT !.writer = t]
  \/ /\ rwl.st = "init"
     /\ rc # 0
     /\ rwl' = rwl
  \/ /\ rwl.st = "destroyed"
     /\ rwl' = rwl

pthread_rwlock_rdlock(t, rc) ==
  \/ /\ rwl.st = "init"
     /\ rc = 0
     /\ rwl.writer = NoThread
     /\ rwl' = [rwl EXCEPT !.readers = @ \cup {t}]
  \/ /\ rwl.st = "init"
     /\ rc # 0
     /\ rwl' = rwl
  \/ /\ rwl.st = "destroyed"
     /\ rwl' = rwl

pthread_rwlock_unlock(t, rc) ==
  \/ /\ rwl.st = "init"
     /\ rc = 0
     /\ rwl.writer = t \/ t \in rwl.readers
     /\ rwl' = IF rwl.writer = t
               THEN [rwl EXCEPT !.writer = NoThread]
               ELSE [rwl EXCEPT !.readers = @ \ {t}]
  \/ /\ rwl.st = "init"
     /\ rc # 0
     /\ rwl' = rwl
  \/ /\ rwl.st = "destroyed"
     /\ rwl' = rwl

pthread_cond_init(rc) ==
  /\ cnd = "uninit"
  /\ cnd' = IF rc = 0 THEN "init" ELSE cnd

pthread_cond_destroy(rc) ==
  /\ cnd = "init"
  /\ cnd' = IF rc = 0 THEN "destroyed" ELSE cnd

(***************************************************************************)
(* What every wrapper does with rc.  hst is the state the object was in    *)
(* when the wrapper was called.                                            *)
(***************************************************************************)
\* LogFullDebug(COMPONENT_RW_LOCK, "... %p (%s) at %s:%d", ...)
LogFullDebug(op, t) ==
  logrec' = [sev |-> "NIV_FULL_DEBUG", op |-> op, thr |-> t, rc |-> 0]

\* LogCrit(COMPONENT_RW_LOCK, "Error %d, ... %p (%s) at %s:%d", rc, ...)
LogCrit(op, t, rc) ==
  logrec' = [sev |-> "NIV_CRIT", op |-> op, thr |-> t, rc |-> rc]

\* abort(): the process ends inside the wrapper, nothing returns.
abort(op, t, rc, hst) ==
  /\ aborted' = TRUE
  /\ lastCall' = [op |-> op, thr |-> t, rc |-> rc, hst |-> hst, ret |-> FALSE]

\* The do { } while (0) block is left: control is back in the caller.  The
\* macro is a statement, it hands no value to the caller.
Return(op, t, rc, hst) ==
  /\ UNCHANGED aborted
  /\ lastCall' = [op |-> op, thr |-> t, rc |-> rc, hst |-> hst, ret |-> TRUE]

(***************************************************************************)
(* The wrappers (macros).  Each one calls its primitive and then either    *)
(* logs at full debug and falls through (rc == 0) or logs critically and   *)
(* calls abort().  The callers keep to the lock discipline: a thread       *)
(* acquires what it does not hold and releases what it holds.              *)
(***************************************************************************)
PTHREAD_RWLOCK_init(t) ==
  /\ ~aborted
  /\ \E rc \in Rcs :
       /\ pthread_rwlock_init(rc)
       /\ IF rc = 0
          THEN /\ LogFullDebug("rwlock_init", t)
               /\ Return("rwlock_init", t, rc, rwl.st)
               /\ events' = <<"primitive", "LogFullDebug", "return">>
          ELSE /\ LogCrit("rwlock_init", t, rc)
               /\ abort("rwlock_init", t, rc, rwl.st)
               /\ events' = <<"primitive", "LogCrit", "abort">>
  /\ UNCHANGED <<mtx, cnd, inM, inRW, timevars, ndebug, strvars>>

PTHREAD_RWLOCK_destroy(t) ==
  /\ ~aborted
  /\ \E rc \in Rcs :
       /\ pthread_rwlock_destroy(rc)
       /\ IF rc = 0
          THEN /\ LogFullDebug("rwlock_destroy", t)
               /\ Return("rwlock_destroy", t, rc, rwl.st)
               /\ events' = <<"primitive", "LogFullDebug", "return">>
          ELSE /\ LogCrit("rwlock_destroy", t, rc)
               /\ abort("rwlock_destroy", t, rc, rwl.st)
               /\ events' = <<"primitive", "LogCrit", "abort">>
  /\ UNCHANGED <<mtx, cnd, inM, inRW, timevars, ndebug, strvars>>

\* PTHREAD_RWLOCK_wrlock without its abort(): the failure is only logged.
PTHREAD_RWLOCK_wrlock_no_abort(t) ==
  /\ ~aborted
  /\ inRW[t] = "none"
  /\ \E rc \in Rcs :
       /\ pthread_rwlock_wrlock(t, rc)
       /\ IF rc = 0
          THEN LogFullDebug("rwlock_wrlock", t)
          ELSE LogCrit("rwlock_wrlock", t, rc)
       /\ inRW' = [inRW EXCEPT ![t] = "wr"]
       /\ Return("rwlock_wrlock", t, rc, rwl.st)
       /\ events' = <<"primitive",
                     IF rc = 0 THEN "LogFullDebug" ELSE "LogCrit", "return">>
  /\ UNCHANGED <<mtx, cnd, inM, timevars, ndebug, strvars>>

PTHREAD_RWLOCK_wrlock(t) ==
  /\ ~aborted
  /\ inRW[t] = "none"
  /\ \E rc \in Rcs :
       /\ pthread_rwlock_wrlock(t, rc)
       /\ IF rc = 0
          THEN /\ LogFullDebug("rwlock_wrlock", t)
               /\ inRW' = [inRW EXCEPT ![t] = "wr"]
               /\ Return("rwlock_wrlock", t, rc, rwl.st)
               /\ events' = <<"primitive", "LogFullDebug", "return">>
          ELSE /\ LogCrit("rwlock_wrlock", t, rc)
               /\ abort("rwlock_wrlock", t, rc, rwl.st)
               /\ events' = <<"primitive", "LogCrit", "abort">>
               /\ UNCHANGED inRW
  /\ UNCHANGED <<mtx, cnd, inM, timevars, ndebug, strvars>>

\* PTHREAD_RWLOCK_rdlock without its abort(): the failure is only logged.
PTHREAD_RWLOCK_rdlock_no_abort(t) ==
  /\ ~aborted
  /\ inRW[t] = "none"
  /\ \E rc \in Rcs :
       /\ pthread_rwlock_rdlock(t, rc)
       /\ IF rc = 0
          THEN LogFullDebug("rwlock_rdlock", t)
          ELSE LogCrit("rwlock_rdlock", t, rc)
       /\ inRW' = [inRW EXCEPT ![t] = "rd"]
       /\ Return("rwlock_rdlock", t, rc, rwl.st)
       /\ events' = <<"primitive",
                     IF rc = 0 THEN "LogFullDebug" ELSE "LogCrit", "return">>
  /\ UNCHANGED <<mtx, cnd, inM, timevars, ndebug, strvars>>

PTHREAD_RWLOCK_rdlock(t) ==
  /\ ~aborted
  /\ inRW[t] = "none"
  /\ \E rc \in Rcs :
       /\ pthread_rwlock_rdlock(t, rc)
       /\ IF rc = 0
          THEN /\ LogFullDebug("rwlock_rdlock", t)
               /\ inRW' = [inRW EXCEPT ![t] = "rd"]
               /\ Return("rwlock_rdlock", t, rc, rwl.st)
               /\ events' = <<"primitive", "LogFullDebug", "return">>
          ELSE /\ LogCrit("rwlock_rdlock", t, rc)
               /\ abort("rwlock_rdlock", t, rc, rwl.st)
               /\ events' = <<"primitive", "LogCrit", "abort">>
               /\ UNCHANGED inRW
  /\ UNCHANGED <<mtx, cnd, inM, timevars, ndebug, strvars>>

PTHREAD_RWLOCK_unlock(t) ==
  /\ ~aborted
  /\ inRW[t] # "none"
  /\ \E rc \in Rcs :
       /\ pthread_rwlock_unlock(t, rc)
       /\ IF rc = 0
          THEN /\ LogFullDebug("rwlock_unlock", t)
               /\ inRW' = [inRW EXCEPT ![t] = "none"]
               /\ Return("rwlock_unlock", t, rc, rwl.st)
               /\ events' = <<"primitive", "LogFullDebug", "return">>
          ELSE /\ LogCrit("rwlock_unlock", t, rc)
               /\ abort("rwlock_unlock", t, rc, rwl.st)
               /\ events' = <<"primitive", "LogCrit", "abort">>
               /\ UNCHANGED inRW
  /\ UNCHANGED <<mtx, cnd, inM, timevars, ndebug, strvars>>

\* PTHREAD_MUTEX_lock without its abort(): the failure is only logged.
PTHREAD_MUTEX_lock_no_abort(t) ==
  /\ ~aborted
  /\ ~inM[t]
  /\ \E rc \in Rcs :
       /\ pthread_mutex_lock(t, rc)
       /\ IF rc = 0
          THEN LogFullDebug("mutex_lock", t)
          ELSE LogCrit("mutex_lock", t, rc)
       /\ inM' = [inM EXCEPT ![t] = TRUE]
       /\ Return("mutex_lock", t, rc, mtx.st)
       /\ events' = <<"primitive",
                     IF rc = 0 THEN "LogFullDebug" ELSE "LogCrit", "return">>
  /\ UNCHANGED <<rwl, cnd, inRW, timevars, ndebug, strvars>>

PTHREAD_MUTEX_lock(t) ==
  /\ ~aborted
  /\ ~inM[t]
  /\ \E rc \in Rcs :
       /\ pthread_mutex_lock(t, rc)
       /\ IF rc = 0
          THEN /\ LogFullDebug("mutex_lock", t)
               /\ inM' = [inM EXCEPT ![t] = TRUE]
               /\ Return("mutex_lock", t, rc, mtx.st)
               /\ events' = <<"primitive", "LogFullDebug", "return">>
          ELSE /\ LogCrit("mutex_lock", t, rc)
               /\ abort("mutex_lock", t, rc, mtx.st)
               /\ events' = <<"primitive", "LogCrit", "abort">>
               /\ UNCHANGED inM
  /\ UNCHANGED <<rwl, cnd, inRW, timevars, ndebug, strvars>>

\* PTHREAD_MUTEX_unlock that calls abort() without the critical record.
PTHREAD_MUTEX_unlock_abort_unlogged(t) ==
  /\ ~aborted
  /\ inM[t]
  /\ \E rc \in Rcs :
       /\ pthread_mutex_unlock(t, rc)
       /\ IF rc = 0
          THEN /\ LogFullDebug("mutex_unlock", t)
               /\ inM' = [inM EXCEPT ![t] = FALSE]
               /\ Return("mutex_unlock", t, rc, mtx.st)
               /\ events' = <<"primitive", "LogFullDebug", "return">>
          ELSE /\ abort("mutex_unlock", t, rc, mtx.st)
               /\ events' = <<"primitive", "abort">>
               /\ UNCHANGED <<inM, logrec>>
  /\ UNCHANGED <<rwl, cnd, inRW, timevars, ndebug, strvars>>

PTHREAD_MUTEX_unlock(t) ==
  /\ ~aborted
  /\ inM[t]
  /\ \E rc \in Rcs :
       /\ pthread_mutex_unlock(t, rc)
       /\ IF rc = 0
          THEN /\ LogFullDebug("mutex_unlock", t)
               /\ inM' = [inM EXCEPT ![t] = FALSE]
               /\ Return("mutex_unlock", t, rc, mtx.st)
               /\ events' = <<"primitive", "LogFullDebug", "return">>
          ELSE /\ LogCrit("mutex_unlock", t, rc)
               /\ abort("mutex_unlock", t, rc, mtx.st)
               /\ events' = <<"primitive", "LogCrit", "abort">>
               /\ UNCHANGED inM
  /\ UNCHANGED <<rwl, cnd, inRW, timevars, ndebug, strvars>>

PTHREAD_MUTEX_init(t) ==
  /\ ~aborted
  /\ \E rc \in Rcs :
       /\ pthread_mutex_init(rc)
       /\ IF rc = 0
          THEN /\ LogFullDebug("mutex_init", t)
               /\ Return("mutex_init", t, rc, mtx.st)
               /\ events' = <<"primitive", "LogFullDebug", "return">>
          ELSE /\ LogCrit("mutex_init", t, rc)
               /\ abort("mutex_init", t, rc, mtx.st)
               /\ events' = <<"primitive", "LogCrit", "abort">>
  /\ UNCHANGED <<rwl, cnd, inM, inRW, timevars, ndebug, strvars>>

PTHREAD_MUTEX_destroy(t) ==
  /\ ~aborted
  /\ \E rc \in Rcs :
       /\ pthread_mutex_destroy(rc)
       /\ IF rc = 0
          THEN /\ LogFullDebug("mutex_destroy", t)
               /\ Return("mutex_destroy", t, rc, mtx.st)
               /\ events' = <<"primitive", "LogFullDebug", "return">>
          ELSE /\ LogCrit("mutex_destroy", t, rc)
               /\ abort("mutex_destroy", t, rc, mtx.st)
               /\ events' = <<"primitive", "LogCrit", "abort">>
  /\ UNCHANGED <<rwl, cnd, inM, inRW, timevars, ndebug, strvars>>

PTHREAD_COND_init(t) ==
  /\ ~aborted
  /\ \E rc \in Rcs :
       /\ pthread_cond_init(rc)
       /\ IF rc = 0
          THEN /\ LogFullDebug("cond_init", t)
               /\ Return("cond_init", t, rc, cnd)
               /\ events' = <<"primitive", "LogFullDebug", "return">>
          ELSE /\ LogCrit("cond_init", t, rc)
               /\ abort("cond_init", t, rc, cnd)
               /\ events' = <<"primitive", "LogCrit", "abort">>
  /\ UNCHANGED <<mtx, rwl, inM, inRW, timevars, ndebug, strvars>>

\* PTHREAD_COND_destroy without its abort(): the failure is only logged.
PTHREAD_COND_destroy_no_abort(t) ==
  /\ ~aborted
  /\ \E rc \in Rcs :
       /\ pthread_cond_destroy(rc)
       /\ IF rc = 0
          THEN LogFullDebug("cond_destroy", t)
          ELSE LogCrit("cond_destroy", t, rc)
       /\ Return("cond_destroy", t, rc, cnd)
       /\ events' = <<"primitive",
                     IF rc = 0 THEN "LogFullDebug" ELSE "LogCrit", "return">>
  /\ UNCHANGED <<mtx, rwl, inM, inRW, timevars, ndebug, strvars>>

PTHREAD_COND_destroy(t) ==
  /\ ~aborted
  /\ \E rc \in Rcs :
       /\ pthread_cond_destroy(rc)
       /\ IF rc = 0
          THEN /\ LogFullDebug("cond_destroy", t)
               /\ Return("cond_destroy", t, rc, cnd)
               /\ events' = <<"primitive", "LogFullDebug", "return">>
          ELSE /\ LogCrit("cond_destroy", t, rc)
               /\ abort("cond_destroy", t, rc, cnd)
               /\ events' = <<"primitive", "LogCrit", "abort">>
  /\ UNCHANGED <<mtx, rwl, inM, inRW, timevars, ndebug, strvars>>

NoCall ==
  [op |-> "none", thr |-> NoThread, rc |-> 0, hst |-> "uninit", ret |-> FALSE]

NoLog == [sev |-> "none", op |-> "none", thr |-> NoThread, rc |-> 0]

InitSync ==
  /\ mtx = [st |-> "uninit", owner |-> NoThread]
  /\ rwl = [st |-> "uninit", writer |-> NoThread, readers |-> {}]
  /\ cnd = "uninit"
  /\ inM = [t \in Threads |-> FALSE]
  /\ inRW = [t \in Threads |-> "none"]
  /\ aborted = FALSE
  /\ lastCall = NoCall
  /\ logrec = NoLog
  /\ events = <<>>

NoTimeCall == [op |-> "none"]

\* The string functions have not been called and there is no buffer yet.
IdleStr ==
  /\ buf = [i \in {0} |-> 0]
  /\ cap = 1
  /\ written = {}
  /\ scall = [op |-> "none"]

Init ==
  /\ InitSync
  /\ ts = [tv_sec |-> 0, tv_nsec |-> 0]
  /\ tb = [tv_sec |-> 0, tv_nsec |-> 0]
  /\ tc = [tv_sec |-> 0, tv_nsec |-> 0]
  /\ tcall = NoTimeCall
  /\ ndebug = FALSE
  /\ IdleStr

Next ==
  \E t \in Threads :
    \/ PTHREAD_RWLOCK_init(t)
    \/ PTHREAD_RWLOCK_destroy(t)
    \/ PTHREAD_RWLOCK_wrlock(t)
    \/ PTHREAD_RWLOCK_rdlock(t)
    \/ PTHREAD_RWLOCK_unlock(t)
    \/ PTHREAD_MUTEX_lock(t)
    \/ PTHREAD_MUTEX_unlock(t)
    \/ PTHREAD_MUTEX_init(t)
    \/ PTHREAD_MUTEX_destroy(t)
    \/ PTHREAD_COND_init(t)
    \/ PTHREAD_COND_destroy(t)

Spec == Init /\ [][Next]_vars

(***************************************************************************)
(* The timespec arithmetic.  A struct timespec is [tv_sec, tv_nsec], both  *)
(* signed; an nsecs_elapsed_t is unsigned and wraps.                       *)
(***************************************************************************)
\* gsh_types.h: #define NS_PER_SEC ((nsecs_elapsed_t) 1000000000), in units
\* of 10^8 ns.
NS_PER_SEC == 10

\* The conversion of a value to nsecs_elapsed_t (uint64_t): modulo the word.
ToNsecsElapsed(x) == x % (2 ^ NsecsBits)

Timespec(sec, nsec) == [tv_sec |-> sec, tv_nsec |-> nsec]

\* timespec_diff without its else branch: always end minus start.
timespec_diff_end_minus_start(start, endt) ==
  ToNsecsElapsed(ToNsecsElapsed(endt.tv_sec - start.tv_sec) * NS_PER_SEC
                 + (endt.tv_nsec - start.tv_nsec))

\* timespec_diff whose test looks at the seconds only.
timespec_diff_seconds_test(start, endt) ==
  IF endt.tv_sec >= start.tv_sec
  THEN ToNsecsElapsed(ToNsecsElapsed(endt.tv_sec - start.tv_sec) * NS_PER_SEC
                      + (endt.tv_nsec - start.tv_nsec))
  ELSE ToNsecsElapsed(ToNsecsElapsed(start.tv_sec - endt.tv_sec) * NS_PER_SEC
                      + (start.tv_nsec - endt.tv_nsec))

\* The seconds difference is multiplied by NS_PER_SEC, an nsecs_elapsed_t, so
\* the sum is an unsigned one, taken modulo the word: a negative nanosecond
\* difference wraps and the sum comes out right.
timespec_diff(start, endt) ==
  IF \/ endt.tv_sec > start.tv_sec
     \/ endt.tv_sec = start.tv_sec /\ endt.tv_nsec >= start.tv_nsec
  THEN ToNsecsElapsed(ToNsecsElapsed(endt.tv_sec - start.tv_sec) * NS_PER_SEC
                      + (endt.tv_nsec - start.tv_nsec))
  ELSE ToNsecsElapsed(ToNsecsElapsed(start.tv_sec - endt.tv_sec) * NS_PER_SEC
                      + (start.tv_nsec - endt.tv_nsec))

\* timespec_to_nsecs that forgets the nanoseconds.
timespec_to_nsecs_whole_seconds(timespec) ==
  ToNsecsElapsed(timespec.tv_sec * NS_PER_SEC)

timespec_to_nsecs(timespec) ==
  ToNsecsElapsed(timespec.tv_sec * NS_PER_SEC + timespec.tv_nsec)

\* nsecs_to_timespec with the quotient and the remainder exchanged.
nsecs_to_timespec_swapped(interval) ==
  Timespec(interval % NS_PER_SEC, interval \div NS_PER_SEC)

nsecs_to_timespec(interval) ==
  Timespec(interval \div NS_PER_SEC, interval % NS_PER_SEC)

\* timespec_add_nsecs that wraps the nanoseconds and loses the carry.
timespec_add_nsecs_no_carry(interval, timespec) ==
  LET sec1  == timespec.tv_sec + (interval \div NS_PER_SEC)
      nsec1 == timespec.tv_nsec + (interval % NS_PER_SEC)
  IN  IF nsec1 > NS_PER_SEC
      THEN Timespec(sec1, nsec1 % NS_PER_SEC)
      ELSE Timespec(sec1, nsec1)

\* tv_nsec is never negative where this is called, so the unsigned
\* comparison with NS_PER_SEC is the plain one.
timespec_add_nsecs(interval, timespec) ==
  LET sec1  == timespec.tv_sec + (interval \div NS_PER_SEC)
      nsec1 == timespec.tv_nsec + (interval % NS_PER_SEC)
  IN  IF nsec1 > NS_PER_SEC
      THEN Timespec(sec1 + (nsec1 \div NS_PER_SEC), nsec1 % NS_PER_SEC)
      ELSE Timespec(sec1, nsec1)

\* timespec_sub_nsecs without the borrow branch.
timespec_sub_nsecs_no_borrow(interval, t) ==
  LET its == nsecs_to_timespec(interval)
  IN  Timespec(t.tv_sec - its.tv_sec, t.tv_nsec - its.tv_nsec)

timespec_sub_nsecs(interval, t) ==
  LET its == nsecs_to_timespec(interval)
  IN  IF its.tv_nsec > t.tv_nsec
      THEN Timespec(t.tv_sec - (its.tv_sec + 1), its.tv_nsec - t.tv_nsec)
      ELSE Timespec(t.tv_sec - its.tv_sec, t.tv_nsec - its.tv_nsec)

\* gsh_time_cmp with the nanosecond comparison the wrong way round.
gsh_time_cmp_nsec_inverted(t1, t2) ==
  IF t1.tv_sec < t2.tv_sec THEN -1
  ELSE IF t1.tv_sec > t2.tv_sec THEN 1
  ELSE IF t1.tv_nsec < t2.tv_nsec THEN 1
  ELSE IF t1.tv_nsec > t2.tv_nsec THEN -1
  ELSE 0

\* gsh_time_cmp that stops at the seconds.
gsh_time_cmp_seconds_only(t1, t2) ==
  IF t1.tv_sec < t2.tv_sec THEN -1
  ELSE IF t1.tv_sec > t2.tv_sec THEN 1
  ELSE 0

gsh_time_cmp(t1, t2) ==
  IF t1.tv_sec < t2.tv_sec THEN -1
  ELSE IF t1.tv_sec > t2.tv_sec THEN 1
  ELSE IF t1.tv_nsec < t2.tv_nsec THEN -1
  ELSE IF t1.tv_nsec > t2.tv_nsec THEN 1
  ELSE 0

\* A WallTime as the spec defines it: the nanoseconds are in [0, 10^9).
Normalized(w) == w.tv_nsec >= 0 /\ w.tv_nsec < NS_PER_SEC

\* w is not before the origin and its flat count fits an nsecs_elapsed_t.
InRange(w) ==
  /\ w.tv_sec >= 0
  /\ w.tv_sec * NS_PER_SEC + w.tv_nsec < 2 ^ NsecsBits

Intervals == 0..MaxInterval

\* The largest values of an nsecs_elapsed_t.
TopIntervals == (2 ^ NsecsBits - NS_PER_SEC)..(2 ^ NsecsBits - 1)

\* The normalized times of the first seconds.
WallTimes(maxsec) ==
  { Timespec(s, m) : s \in 0..maxsec, m \in 0..(NS_PER_SEC - 1) }

(***************************************************************************)
(* The callers of the arithmetic: each applies one function to ts and      *)
(* records the operands and the results in tcall.                          *)
(***************************************************************************)
CallAddNsecs ==
  \E n \in Intervals :
    /\ ts.tv_sec + (n \div NS_PER_SEC) + 1 <= MaxSec
    /\ ts' = timespec_add_nsecs(n, ts)
    /\ tcall' = [op |-> "add", w |-> ts, n |-> n]
    /\ UNCHANGED <<tb, tc, syncvars, ndebug, strvars>>

CallSubNsecs ==
  \E n \in Intervals :
    /\ ts.tv_sec - (n \div NS_PER_SEC) - 1 >= 0 - MaxNegSec
    /\ ts' = timespec_sub_nsecs(n, ts)
    /\ tcall' = [op |-> "sub", w |-> ts, n |-> n]
    /\ UNCHANGED <<tb, tc, syncvars, ndebug, strvars>>

CallRoundTrip ==
  /\ ts' = nsecs_to_timespec(timespec_to_nsecs(ts))
  /\ tcall' = [op |-> "roundtrip", w |-> ts, n |-> timespec_to_nsecs(ts)]
  /\ UNCHANGED <<tb, tc, syncvars, ndebug, strvars>>

\* timespec_add_nsecs(n, &ts) followed by timespec_sub_nsecs(n, &ts).
CallAddThenSub ==
  \E n \in Intervals :
    /\ ts.tv_sec + (n \div NS_PER_SEC) + 1 <= MaxSec
    /\ ts' = timespec_sub_nsecs(n, timespec_add_nsecs(n, ts))
    /\ tcall' = [op |-> "addsub", w |-> ts, n |-> n,
                 mid |-> timespec_add_nsecs(n, ts)]
    /\ UNCHANGED <<tb, tc, syncvars, ndebug, strvars>>

\* nsecs_to_timespec(n, &ts), and timespec_to_nsecs(&ts) on its result.
CallFromNsecs ==
  \E n \in Intervals \cup TopIntervals :
    /\ ts' = nsecs_to_timespec(n)
    /\ tcall' = [op |-> "fromnsecs", n |-> n,
                 back |-> timespec_to_nsecs(nsecs_to_timespec(n))]
    /\ UNCHANGED <<tb, tc, syncvars, ndebug, strvars>>

InitTime ==
  /\ InitSync
  /\ ts \in WallTimes(MaxSec)
  /\ tb = Timespec(0, 0)
  /\ tc = Timespec(0, 0)
  /\ tcall = NoTimeCall
  /\ ndebug = FALSE
  /\ IdleStr

NextTime ==
  \/ CallAddNsecs
  \/ CallSubNsecs
  \/ CallRoundTrip
  \/ CallAddThenSub
  \/ CallFromNsecs

SpecTime == InitTime /\ [][NextTime]_vars

(***************************************************************************)
(* The callers of the functions of two timespecs: the operands ts, tb and  *)
(* tc are drawn once, and the call records the results in tcall.           *)
(***************************************************************************)
CallTimeCmp ==
  /\ tcall' = [op |-> "cmp",
               aa |-> gsh_time_cmp(ts, ts),
               ab |-> gsh_time_cmp(ts, tb),
               ba |-> gsh_time_cmp(tb, ts),
               bc |-> gsh_time_cmp(tb, tc),
               ac |-> gsh_time_cmp(ts, tc)]
  /\ UNCHANGED <<ts, tb, tc, syncvars, ndebug, strvars>>

InitCmp ==
  /\ InitSync
  /\ ts \in WallTimes(MaxCmpSec)
  /\ tb \in WallTimes(MaxCmpSec)
  /\ tc \in WallTimes(MaxCmpSec)
  /\ tcall = NoTimeCall
  /\ ndebug = FALSE
  /\ IdleStr

NextCmp == CallTimeCmp

SpecCmp == InitCmp /\ [][NextCmp]_vars

(***************************************************************************)
(* The callers of timespec_diff, on the operands ts and tb.                *)
(***************************************************************************)
CallTimespecDiff ==
  /\ tcall' = [op |-> "diff",
               ab |-> timespec_diff(ts, tb),
               ba |-> timespec_diff(tb, ts)]
  /\ UNCHANGED <<ts, tb, tc, syncvars, ndebug, strvars>>

CallCmpAndDiff ==
  /\ tcall' = [op |-> "cmpdiff",
               cmp |-> gsh_time_cmp(ts, tb),
               diff |-> timespec_diff(ts, tb),
               ea |-> timespec_to_nsecs(ts),
               eb |-> timespec_to_nsecs(tb)]
  /\ UNCHANGED <<ts, tb, tc, syncvars, ndebug, strvars>>

InitDiff ==
  /\ InitSync
  /\ ts \in WallTimes(MaxDiffSec)
  /\ tb \in WallTimes(MaxDiffSec)
  /\ tc = Timespec(0, 0)
  /\ tcall = NoTimeCall
  /\ ndebug = FALSE
  /\ IdleStr

NextDiff ==
  \/ CallTimespecDiff
  \/ CallCmpAndDiff

SpecDiff == InitDiff /\ [][NextDiff]_vars

(***************************************************************************)
(* The bounded string functions.  The memory at dest is a function from    *)
(* the byte offsets 0..MaxCap to bytes: dest_size (cap) of them belong to  *)
(* the buffer, the rest lies behind it.  A source is a sequence of nonzero *)
(* bytes; in memory it is followed by its terminating 0.                   *)
(***************************************************************************)
Offsets == 0..MaxCap
Chars == 1..MaxChar

\* The C strings of at most n characters.
Strings(n) == UNION { [1..k -> Chars] : k \in 0..n }

\* Byte i of the C string src, the terminator included.
SrcByte(src, i) == IF i < Len(src) THEN src[i + 1] ELSE 0

\* The memory that holds the C string s at offset 0, with bytes that are not
\* 0 behind its terminator.
MemOf(s) ==
  [i \in Offsets |-> IF i <= Len(s) THEN SrcByte(s, i) ELSE MaxChar]

\* strlen(dest): the offset of the first 0 byte (MaxCap + 1 when the
\* modelled memory holds none).
strlen(mem) ==
  LET zeros == { i \in DOMAIN mem : mem[i] = 0 }
  IN  IF zeros = {}
      THEN MaxCap + 1
      ELSE CHOOSE i \in zeros : \A j \in zeros : i <= j

\* memcpy(dest + off, src, n)
memcpy(mem, off, src, n) ==
  [i \in DOMAIN mem |->
     IF i >= off /\ i < off + n THEN SrcByte(src, i - off) ELSE mem[i]]

\* strmaxcpy whose test lets a source of dest_size characters through.
strmaxcpy_len_gt(dest, src, dest_size) ==
  LET len == Len(src)
  IN  IF len > dest_size
      THEN [rc |-> -1, mem |-> dest, wr |-> {}]
      ELSE [rc |-> 0, mem |-> memcpy(dest, 0, src, len + 1), wr |-> 0..len]

\* strmaxcpy that copies the characters without the terminator.
strmaxcpy_no_terminator(dest, src, dest_size) ==
  LET len == Len(src)
  IN  IF len >= dest_size
      THEN [rc |-> -1, mem |-> dest, wr |-> {}]
      ELSE [rc |-> 0, mem |-> memcpy(dest, 0, src, len), wr |-> 0..(len - 1)]

\* The result: the code returned, the memory afterwards, the offsets written.
strmaxcpy(dest, src, dest_size) ==
  LET len == Len(src)
  IN  IF len >= dest_size
      THEN [rc |-> -1, mem |-> dest, wr |-> {}]
      ELSE [rc |-> 0, mem |-> memcpy(dest, 0, src, len + 1), wr |-> 0..len]

\* strmaxcat that leaves no room for the terminator.
strmaxcat_remain_lt(dest, src, dest_size) ==
  LET destlen == strlen(dest)
      remain  == dest_size - destlen
      srclen  == Len(src)
  IN  IF remain < srclen
      THEN [rc |-> -1, mem |-> dest, wr |-> {}]
      ELSE [rc |-> 0,
            mem |-> memcpy(dest, destlen, src, srclen + 1),
            wr |-> destlen..(destlen + srclen)]

strmaxcat(dest, src, dest_size) ==
  LET destlen == strlen(dest)
      remain  == dest_size - destlen
      srclen  == Len(src)
  IN  IF remain <= srclen
      THEN [rc |-> -1, mem |-> dest, wr |-> {}]
      ELSE [rc |-> 0,
            mem |-> memcpy(dest, destlen, src, srclen + 1),
            wr |-> destlen..(destlen + srclen)]

CallStrmaxcpy ==
  \E src \in Strings(MaxSrcLen) :
    LET r == strmaxcpy(buf, src, cap)
    IN  /\ buf' = r.mem
        /\ written' = written \cup r.wr
        /\ scall' = [op |-> "cpy", src |-> src, rc |-> r.rc, old |-> buf]
        /\ UNCHANGED <<cap, syncvars, timevars, ndebug>>

CallStrmaxcat ==
  \E src \in Strings(MaxSrcLen) :
    LET r == strmaxcat(buf, src, cap)
    IN  /\ buf' = r.mem
        /\ written' = written \cup r.wr
        /\ scall' = [op |-> "cat", src |-> src, rc |-> r.rc, old |-> buf]
        /\ UNCHANGED <<cap, syncvars, timevars, ndebug>>

\* A buffer of capacity cap that holds a null-terminated string shorter
\* than cap.
InitStr ==
  /\ InitSync
  /\ ts = Timespec(0, 0)
  /\ tb = Timespec(0, 0)
  /\ tc = Timespec(0, 0)
  /\ tcall = NoTimeCall
  /\ ndebug = FALSE
  /\ cap \in 1..MaxCap
  /\ buf \in { MemOf(s) : s \in Strings(cap - 1) }
  /\ written = {}
  /\ scall = [op |-> "none"]

NextStr ==
  \/ CallStrmaxcpy
  \/ CallStrmaxcat

SpecStr == InitStr /\ [][NextStr]_vars

(***************************************************************************)
(* now().  clock_gettime either fills *ts with the clock's value and       *)
(* returns 0, or returns -1 and leaves *ts as the caller passed it.  On    *)
(* failure now() logs and runs assert(0), which ends the process unless    *)
(* the build defines NDEBUG: then assert expands to nothing and now()      *)
(* returns.                                                                *)
(***************************************************************************)
ClockRcs == {-1, 0}

now ==
  /\ ~aborted
  /\ \E rc \in ClockRcs :
       IF rc = 0
       THEN /\ \E clk \in WallTimes(MaxCmpSec) :
                 /\ ts' = clk
                 /\ tcall' = [op |-> "now", rc |-> rc, old |-> ts,
                              clk |-> clk, ret |-> TRUE]
            /\ events' = <<"clock_gettime", "return">>
            /\ UNCHANGED <<logrec, aborted>>
       ELSE /\ ts' = ts
            /\ logrec' = [sev |-> "NIV_CRIT", op |-> "now",
                          thr |-> NoThread, rc |-> 0]
            /\ aborted' = ~ndebug
            /\ tcall' = [op |-> "now", rc |-> rc, old |-> ts,
                         clk |-> ts, ret |-> ndebug]
            /\ events' = <<"clock_gettime", "LogCrit",
                           IF ndebug THEN "return" ELSE "abort">>
  /\ UNCHANGED <<mtx, rwl, cnd, inM, inRW, lastCall, tb, tc, ndebug, strvars>>

\* The caller's timespec holds any value; the build is with or without
\* NDEBUG.
InitNow ==
  /\ InitSync
  /\ ts \in WallTimes(MaxCmpSec)
  /\ tb = Timespec(0, 0)
  /\ tc = Timespec(0, 0)
  /\ tcall = NoTimeCall
  /\ ndebug \in BOOLEAN
  /\ IdleStr

NextNow == now

SpecNow == InitNow /\ [][NextNow]_vars

(***************************************************************************)
(* The claims.                                                             *)
(***************************************************************************)
InMutex == { t \in Threads : inM[t] }
Writers == { t \in Threads : inRW[t] = "wr" }
Readers == { t \in Threads : inRW[t] = "rd" }
AcquireOps == {"mutex_lock", "rwlock_wrlock", "rwlock_rdlock"}
AcquireAfterDestroy == lastCall.op \in AcquireOps /\ lastCall.hst = "destroyed"

\* C1: whichever of the eleven wrappers was called last, the process is
\* aborted if and only if its primitive returned a nonzero code, and the
\* wrapper returned to its caller if and only if the code was zero.
C1_AbortIffNonzero ==
  /\ lastCall.op = "none" => ~aborted
  /\ lastCall.op # "none" =>
       /\ aborted <=> lastCall.rc # 0
       /\ lastCall.ret <=> lastCall.rc = 0

\* C1, its case: a wrapper whose primitive failed has aborted the process.
C1_Witness ==
  /\ lastCall.op = "cond_destroy"
  /\ lastCall.rc # 0
  /\ aborted
  /\ ~lastCall.ret

\* C2: while the mutex is an initialized one, at most one thread is between
\* a normal return of PTHREAD_MUTEX_lock and its PTHREAD_MUTEX_unlock.
C2_MutualExclusion == mtx.st = "init" => Cardinality(InMutex) <= 1

\* C2, its case: PTHREAD_MUTEX_lock has returned normally to a thread, which
\* owns the initialized mutex and is alone in the critical section.
C2_Witness ==
  /\ mtx.st = "init"
  /\ lastCall.op = "mutex_lock"
  /\ lastCall.ret
  /\ mtx.owner = lastCall.thr
  /\ InMutex = {lastCall.thr}

\* C3: while the rwlock is an initialized one, either nobody holds it for
\* writing, or exactly one thread does and nobody holds it for reading.
C3_ReadersWriterExclusion ==
  rwl.st = "init" =>
    \/ Writers = {}
    \/ Cardinality(Writers) = 1 /\ Readers = {}

\* C3, its case: several threads hold the rwlock for reading at once.
C3_Witness ==
  /\ rwl.st = "init"
  /\ Cardinality(Readers) >= 2
  /\ Writers = {}

\* C4 as claimed: an acquire on a destroyed handle always aborts the process
\* and never returns to its caller.
C4_AcquireAfterDestroyAborts ==
  AcquireAfterDestroy => aborted /\ ~lastCall.ret

\* C4 as amended: an acquire on a destroyed handle aborts the process, and
\* does not return, exactly when the primitive reports a nonzero code for
\* the destroyed handle; when the primitive returns 0 the acquire returns.
C4_AcquireAfterDestroyAbortsOnError ==
  AcquireAfterDestroy =>
    /\ lastCall.rc # 0 => aborted /\ ~lastCall.ret
    /\ lastCall.rc = 0 => ~aborted /\ lastCall.ret

\* C4, its case: PTHREAD_MUTEX_lock on the destroyed mutex took the fatal
\* path.
C4_Witness ==
  /\ AcquireAfterDestroy
  /\ lastCall.op = "mutex_lock"
  /\ mtx.st = "destroyed"
  /\ lastCall.rc # 0
  /\ aborted

\* C5: timespec_add_nsecs on a normalized time leaves the nanoseconds in
\* [0, NS_PER_SEC).
C5_AddNormalized ==
  (tcall.op = "add" /\ Normalized(tcall.w)) => Normalized(ts)

\* C6: timespec_sub_nsecs of n <= toElapsed(w) from a normalized w leaves the
\* time exactly n earlier.
C6_SubExact ==
  (/\ tcall.op = "sub"
   /\ Normalized(tcall.w)
   /\ InRange(tcall.w)
   /\ tcall.n <= timespec_to_nsecs(tcall.w))
  => timespec_to_nsecs(ts) = timespec_to_nsecs(tcall.w) - tcall.n

\* C7: timespec_add_nsecs of n to a normalized w within range leaves the time
\* exactly n later, and (10, 5) plus 6 is (11, 1), which is
\* (sec 10, ns 500000000) plus 600000000 ns = (sec 11, ns 100000000).
C7_AddExact ==
  (tcall.op = "add" /\ Normalized(tcall.w) /\ InRange(tcall.w) /\ InRange(ts))
  => /\ timespec_to_nsecs(ts) = timespec_to_nsecs(tcall.w) + tcall.n
     /\ (tcall.w = Timespec(10, 5) /\ tcall.n = 6) => ts = Timespec(11, 1)

\* C7, its case: the concrete addition, which carries into the seconds.
C7_Witness ==
  /\ tcall.op = "add"
  /\ tcall.w = Timespec(10, 5)
  /\ tcall.n = 6
  /\ ts = Timespec(11, 1)

\* C8: timespec_sub_nsecs on a normalized time leaves the nanoseconds in
\* [0, NS_PER_SEC), whether it borrows or not.
C8_SubNormalized ==
  (tcall.op = "sub" /\ Normalized(tcall.w)) => Normalized(ts)

\* C8, its case: a subtraction that took the borrow branch.
C8_Witness ==
  /\ tcall.op = "sub"
  /\ Normalized(tcall.w)
  /\ tcall.n % NS_PER_SEC > tcall.w.tv_nsec
  /\ ts.tv_sec = tcall.w.tv_sec - (tcall.n \div NS_PER_SEC) - 1
  /\ Normalized(ts)

\* C9: nsecs_to_timespec(timespec_to_nsecs(w)) has the seconds and the
\* nanoseconds of w, for a normalized w within the representable range.
C9_RoundTrip ==
  (tcall.op = "roundtrip" /\ Normalized(tcall.w) /\ InRange(tcall.w))
  => /\ ts.tv_sec = tcall.w.tv_sec
     /\ ts.tv_nsec = tcall.w.tv_nsec

\* C9, its case: the round trip of a time with seconds and nanoseconds.
C9_Witness ==
  /\ tcall.op = "roundtrip"
  /\ Normalized(tcall.w)
  /\ InRange(tcall.w)
  /\ tcall.w.tv_sec > 0
  /\ tcall.w.tv_nsec > 0
  /\ tcall.n = tcall.w.tv_sec * NS_PER_SEC + tcall.w.tv_nsec
  /\ ts = tcall.w

\* C10: gsh_time_cmp is a total order: cmp(a,a) = 0, cmp(a,b) = -cmp(b,a),
\* cmp(a,b) = 0 exactly when the seconds and the nanoseconds are equal, and
\* cmp(a,b) <= 0 with cmp(b,c) <= 0 gives cmp(a,c) <= 0.
C10_TotalOrder ==
  tcall.op = "cmp" =>
    /\ tcall.aa = 0
    /\ tcall.ab = 0 - tcall.ba
    /\ tcall.ab = 0 <=> (ts.tv_sec = tb.tv_sec /\ ts.tv_nsec = tb.tv_nsec)
    /\ (tcall.ab <= 0 /\ tcall.bc <= 0) => tcall.ac <= 0

\* C10, its case: a < b decided by the nanoseconds, b < c by the seconds.
C10_Witness ==
  /\ tcall.op = "cmp"
  /\ ts.tv_sec = tb.tv_sec
  /\ ts.tv_nsec < tb.tv_nsec
  /\ tb.tv_sec < tc.tv_sec
  /\ tcall.ab = -1
  /\ tcall.bc = -1
  /\ tcall.ac = -1

\* The distance of two flat counts.
AbsDiff(x, y) == IF x >= y THEN x - y ELSE y - x

\* C11: timespec_diff(a, b) is the absolute value of toElapsed(a) -
\* toElapsed(b), whichever is earlier, and diff((5,0),(3,0)) is 20, which is
\* 2000000000 ns.
C11_DiffAbsolute ==
  tcall.op = "diff" =>
    /\ tcall.ab = AbsDiff(timespec_to_nsecs(ts), timespec_to_nsecs(tb))
    /\ (ts = Timespec(5, 0) /\ tb = Timespec(3, 0)) => tcall.ab = 20

\* C11, its case: the first time is the later one and has the smaller
\* nanosecond field.
C11_Witness ==
  /\ tcall.op = "diff"
  /\ ts.tv_sec > tb.tv_sec
  /\ ts.tv_nsec < tb.tv_nsec
  /\ tcall.ab = (ts.tv_sec - tb.tv_sec) * NS_PER_SEC - (tb.tv_nsec - ts.tv_nsec)

\* C12: timespec_diff(a, b) = timespec_diff(b, a).
C12_DiffSymmetric == tcall.op = "diff" => tcall.ab = tcall.ba

\* C12, its case: two different times of the same second.
C12_Witness ==
  /\ tcall.op = "diff"
  /\ ts.tv_sec = tb.tv_sec
  /\ ts.tv_nsec > tb.tv_nsec
  /\ tcall.ab = tcall.ba
  /\ tcall.ab > 0

\* buf holds the characters of the string s from offset off on, and then 0.
HoldsAt(off, s) ==
  /\ \A i \in 1..Len(s) : buf[off + i - 1] = s[i]
  /\ buf[off + Len(s)] = 0

\* C13: strmaxcpy returns 0 exactly when strlen(src) < dest_size, and then
\* dest holds src and a terminator; otherwise it returns -1 and no byte of
\* dest has changed.  Two characters fit 4 bytes and do not fit 2.
C13_StrmaxcpyContract ==
  scall.op = "cpy" =>
    /\ scall.rc = 0 <=> Len(scall.src) < cap
    /\ scall.rc = 0 => HoldsAt(0, scall.src)
    /\ scall.rc # 0 => scall.rc = -1 /\ buf = scall.old
    /\ (Len(scall.src) = 2 /\ cap = 4) => scall.rc = 0
    /\ (Len(scall.src) = 2 /\ cap = 2) => scall.rc = -1

\* C13, its case: a source of two characters copied into four bytes.
C13_Witness ==
  /\ scall.op = "cpy"
  /\ Len(scall.src) = 2
  /\ cap = 4
  /\ scall.rc = 0
  /\ buf # scall.old
  /\ HoldsAt(0, scall.src)

\* C14: on a null-terminated dest shorter than dest_size, strmaxcat returns 0
\* exactly when strlen(dest) + strlen(src) < dest_size, and then dest holds
\* its old contents, src and a terminator; otherwise it returns -1 and dest
\* is unchanged.
C14_StrmaxcatContract ==
  (scall.op = "cat" /\ strlen(scall.old) < cap) =>
    /\ scall.rc = 0 <=> strlen(scall.old) + Len(scall.src) < cap
    /\ scall.rc = 0 =>
         /\ \A i \in 0..(strlen(scall.old) - 1) : buf[i] = scall.old[i]
         /\ HoldsAt(strlen(scall.old), scall.src)
    /\ scall.rc # 0 => scall.rc = -1 /\ buf = scall.old

\* C14, its case: a source appended to a string that is not empty, filling
\* the buffer to its last byte.
C14_Witness ==
  /\ scall.op = "cat"
  /\ strlen(scall.old) > 0
  /\ Len(scall.src) > 0
  /\ scall.rc = 0
  /\ strlen(buf) = strlen(scall.old) + Len(scall.src)
  /\ strlen(buf) = cap - 1

\* C20: after any sequence of strmaxcpy and strmaxcat calls the buffer holds
\* a null-terminated string shorter than its capacity, and no byte at an
\* offset >= the capacity has been written.
C20_BufferInvariant ==
  scall.op # "none" =>
    /\ strlen(buf) < cap
    /\ \A i \in written : i < cap

\* C20, its case: a failed call after successful ones that wrote the whole
\* buffer.
C20_Witness ==
  /\ scall.op = "cat"
  /\ scall.rc = -1
  /\ written = 0..(cap - 1)
  /\ cap > 2
  /\ strlen(buf) = cap - 1

\* C15: when the clock read fails, now() ends the process after the critical
\* record and never returns with the caller's timestamp unset or stale; when
\* it succeeds, now() returns with the clock's value in the timespec.
C15_NowDiesOnFailure ==
  tcall.op = "now" =>
    /\ tcall.rc # 0 =>
         /\ logrec.sev = "NIV_CRIT"
         /\ aborted
         /\ ~tcall.ret
    /\ tcall.rc = 0 =>
         /\ tcall.ret
         /\ ~aborted
         /\ ts = tcall.clk

\* The wrapper call whose trace events holds has emitted exactly one
\* diagnostic record.
OneRecord ==
  Cardinality({ i \in 1..Len(events) :
                  events[i] \in {"LogFullDebug", "LogCrit"} }) = 1

\* C16: every wrapper call emits exactly one diagnostic record, after its
\* primitive has returned: a full-debug record when the primitive returned
\* 0, a critical record that carries the return code otherwise; the critical
\* record always comes before the abort.
C16_OneRecordPerCall ==
  lastCall.op # "none" =>
    /\ OneRecord
    /\ events[1] = "primitive"
    /\ events[2] = IF lastCall.rc = 0 THEN "LogFullDebug" ELSE "LogCrit"
    /\ logrec.op = lastCall.op
    /\ logrec.thr = lastCall.thr
    /\ logrec.sev = IF lastCall.rc = 0 THEN "NIV_FULL_DEBUG" ELSE "NIV_CRIT"
    /\ lastCall.rc # 0 => logrec.rc = lastCall.rc
    /\ aborted <=> events = <<"primitive", "LogCrit", "abort">>
    /\ ~aborted <=> events = <<"primitive", "LogFullDebug", "return">>

\* C16, its case: a call whose primitive failed left the critical record
\* with its return code and then aborted, after an earlier call had left a
\* full-debug record.
C16_Witness ==
  /\ lastCall.op = "mutex_unlock"
  /\ lastCall.rc = MaxRc
  /\ logrec = [sev |-> "NIV_CRIT", op |-> "mutex_unlock",
               thr |-> lastCall.thr, rc |-> MaxRc]
  /\ events = <<"primitive", "LogCrit", "abort">>
  /\ aborted

\* C17: timespec_add_nsecs(n, w) followed by timespec_sub_nsecs(n, w) leaves
\* w as it was, for a normalized w within range.
C17_AddThenSubRestores ==
  (/\ tcall.op = "addsub"
   /\ Normalized(tcall.w)
   /\ InRange(tcall.w)
   /\ InRange(tcall.mid))
  => ts = tcall.w

\* C18: gsh_time_cmp agrees with the order of the flat counts (-1, 0, 1 for
\* less, equal, greater), and it is 0 exactly when timespec_diff is 0.
C18_CmpAgreesWithElapsed ==
  tcall.op = "cmpdiff" =>
    /\ tcall.cmp = -1 <=> tcall.ea < tcall.eb
    /\ tcall.cmp = 0 <=> tcall.ea = tcall.eb
    /\ tcall.cmp = 1 <=> tcall.ea > tcall.eb
    /\ tcall.cmp = 0 <=> tcall.diff = 0

\* C18, its case: two times of the same second whose nanoseconds decide the
\* order.
C18_Witness ==
  /\ tcall.op = "cmpdiff"
  /\ ts.tv_sec = tb.tv_sec
  /\ ts.tv_sec > 0
  /\ ts.tv_nsec < tb.tv_nsec
  /\ tcall.cmp = -1
  /\ tcall.diff = tb.tv_nsec - ts.tv_nsec

\* C19: nsecs_to_timespec(n) is normalized, with n mod NS_PER_SEC
\* nanoseconds and n div NS_PER_SEC seconds, and timespec_to_nsecs of it
\* is n.
C19_FromNsecsNormalized ==
  tcall.op = "fromnsecs" =>
    /\ Normalized(ts)
    /\ ts.tv_nsec = tcall.n % NS_PER_SEC
    /\ ts.tv_sec = tcall.n \div NS_PER_SEC
    /\ tcall.back = tcall.n

\* C19, its case: the largest count, with seconds and nanoseconds.
C19_Witness ==
  /\ tcall.op = "fromnsecs"
  /\ tcall.n = 2 ^ NsecsBits - 1
  /\ ts.tv_sec > 0
  /\ ts.tv_nsec > 0
  /\ ts.tv_sec # ts.tv_nsec
  /\ tcall.back = tcall.n

=============================================================================
